---- MODULE Spec2Model ----
(***************************************************************************)
(* Schema simplification for Databricks (src/server/transportWrapper.ts)   *)
(* and the transport send wrapper that applies it to tools/list responses. *)
(*                                                                         *)
(* Representation of JavaScript values                                     *)
(*   - a JsonSchema object is a function from the keys it carries to their *)
(*     values; a key whose value is `undefined` is the same as a missing   *)
(*     key (JSON.stringify drops it), so it is not in the DOMAIN;          *)
(*   - `type` is string | string[]: Tag(s) is the string s, TagArr(q) the  *)
(*     array q;                                                            *)
(*   - `additionalProperties` is boolean | JsonSchema: [bool |-> b] or     *)
(*     [schema |-> node];                                                  *)
(*   - `$ref` is the string prefix \o name, kept as [prefix, name];        *)
(*   - `required` is kept as the set of its elements;                      *)
(*   - literals (enum members, const, default) are named atoms whose       *)
(*     `typeof` is given by TypeofLiteral.                                 *)
(***************************************************************************)
EXTENDS Integers, Sequences, FiniteSets, TLC

VARIABLES
    inSchema,     \* the schema handed to simplifySchemaForDatabricks
    inMaxDepth,   \* its maxDepth argument
    pc,           \* position of the caller: "start", "once", "twice"
    out,          \* outcome of simplify(inSchema)
    out2,         \* outcome of simplify(out)
    wire,         \* per transport: what originalSend was invoked with, in order
    calls,        \* per transport: the send calls made on the wrapped transport
    wrapped,      \* transports whose send has been replaced by the wrapper
    nextRef       \* next fresh object identity

vars == <<inSchema, inMaxDepth, pc, out, out2, wire, calls, wrapped, nextRef>>

----------------------------------------------------------------------------
(* JavaScript values *)

Has(obj, key) == key \in DOMAIN obj

EmptyObject == [k \in {} |-> k]

\* one optional key of an object literal: ...(cond && {key: value})
Opt(cond, key, value) == IF cond THEN key :> value ELSE EmptyObject

Undefined == [undefined |-> TRUE]
IsUndefined(v) == Has(v, "undefined")

Tag(s) == [single |-> s]
TagArr(q) == [array |-> q]
IsArrayType(t) == Has(t, "array")

\* what a call that overflows the JavaScript call stack ends with
RangeError == [thrown |-> "RangeError: Maximum call stack size exceeded"]
IsThrown(v) == Has(v, "thrown")

\* frames the call stack has room for
StackLimit == 24

\* default value of the maxDepth parameter
DefaultMaxDepth == 4

TypeofLiteral(lit) ==
    CASE lit \in {"lit_a", "lit_b"} -> "string"
      [] lit \in {"lit_1"} -> "number"
      [] lit \in {"lit_true"} -> "boolean"
      [] OTHER -> "object"

Fallback == [type |-> Tag("object"), additionalProperties |-> [bool |-> TRUE]]

----------------------------------------------------------------------------
(* normalizeType *)

\* mutant: the first tag of the array, `null` or not
normalizeTypeFirstTag(type) ==
    IF IsUndefined(type) THEN Undefined
    ELSE IF ~IsArrayType(type)
    THEN (IF type.single = "" THEN Undefined ELSE type)
    ELSE IF Len(type.array) > 0 THEN Tag(type.array[1]) ELSE Tag("null")

normalizeType(type) ==
    IF IsUndefined(type) THEN Undefined
    ELSE IF ~IsArrayType(type)
    THEN (IF type.single = "" THEN Undefined ELSE type)
    ELSE LET nonNullTypes == SelectSeq(type.array, LAMBDA t : t # "null")
         IN  IF Len(nonNullTypes) > 0 THEN Tag(nonNullTypes[1]) ELSE Tag("null")

----------------------------------------------------------------------------
(* mergePropertySchemas *)

TypeOf(node) == IF Has(node, "type") THEN node.type ELSE Undefined
TruthyType(node) == Has(node, "type") /\ node.type # Tag("")
TruthyDescription(node) == Has(node, "description") /\ node.description # ""

\* mutant: two schemas of one property always collapse to {type: string}
mergePropertySchemasAlwaysString(schema1, schema2) == [type |-> Tag("string")]

mergePropertySchemas(schema1, schema2) ==
    IF TypeOf(schema1) = TypeOf(schema2) THEN schema1
    ELSE IF TruthyType(schema1) /\ ~TruthyType(schema2) THEN schema1
    ELSE IF TruthyType(schema2) /\ ~TruthyType(schema1) THEN schema2
    ELSE LET d1 == TruthyDescription(schema1)
             d2 == TruthyDescription(schema2)
         IN  [type |-> Tag("string")]
             @@ Opt(d1 \/ d2, "description",
                    IF d1 /\ d2 THEN schema1.description \o " OR " \o schema2.description
                    ELSE IF d1 THEN schema1.description
                    ELSE schema2.description)

----------------------------------------------------------------------------
(* simplifySchemaForDatabricks and mergeSchemaOptions *)

\* if (schemaToProcess.$ref): the empty string is falsy
TruthyRef(ref) == ref.prefix \o ref.name # ""

\* $ref.replace('#/$defs/', '').replace('#/definitions/', '')
RefPath(ref) ==
    IF ref.prefix \in {"#/$defs/", "#/definitions/"} THEN ref.name
    ELSE ref.prefix \o ref.name

\* definitions || schema.$defs || schema.definitions || {}
CollectDefs(schema, definitions) ==
    IF ~IsUndefined(definitions) THEN definitions.table
    ELSE IF Has(schema, "$defs") THEN schema["$defs"]
    ELSE IF Has(schema, "definitions") THEN schema.definitions
    ELSE EmptyObject

\* the loop body's "Merge properties" for one object option
MergeProperties(mergedProperties, properties) ==
    [key \in DOMAIN mergedProperties \cup DOMAIN properties |->
        IF key \notin DOMAIN properties THEN mergedProperties[key]
        ELSE IF key \notin DOMAIN mergedProperties THEN properties[key]
        ELSE mergePropertySchemas(mergedProperties[key], properties[key])]

\* mutant: the first option's required set, never intersected with the others
FinalRequiredFirstOnly(requiredSets) ==
    IF Len(requiredSets) > 0 THEN requiredSets[1] ELSE {}

\* requiredSets[0] filtered by membership in every set
FinalRequired(requiredSets) ==
    IF Len(requiredSets) > 0
    THEN {prop \in requiredSets[1] :
             \A i \in 1..Len(requiredSets) : prop \in requiredSets[i]}
    ELSE {}

\* mutant: the primitive tail keeps every field of the node
SimplifyPrimitiveCopyAll(schemaToProcess) ==
    IF DOMAIN schemaToProcess # {} THEN schemaToProcess ELSE [type |-> Tag("object")]

\* the "Handle primitive types" tail of simplifySchemaForDatabricks
SimplifyPrimitive(schemaToProcess) ==
    LET copied ==
            Opt(TruthyType(schemaToProcess), "type", schemaToProcess.type)
            @@ Opt(Has(schemaToProcess, "enum"), "enum", schemaToProcess.enum)
            @@ Opt(Has(schemaToProcess, "const"), "const", schemaToProcess.const)
            @@ Opt(TruthyDescription(schemaToProcess), "description",
                   schemaToProcess.description)
            @@ Opt(Has(schemaToProcess, "default"), "default", schemaToProcess.default)
        infer == ~Has(copied, "type") /\ Has(copied, "enum") /\ Len(copied.enum) > 0
        kind == TypeofLiteral(copied.enum[1])
        simplified ==
            copied @@ Opt(infer /\ kind \in {"string", "number", "boolean"},
                          "type", Tag(kind))
    IN  IF DOMAIN simplified # {} THEN simplified ELSE [type |-> Tag("object")]

\* mutants of the depth guard: off by one in either direction
DepthExceededAtLimit(currentDepth, maxDepth) == currentDepth >= maxDepth
DepthExceededLate(currentDepth, maxDepth) == currentDepth > maxDepth + 1

\* the depth guard: if (currentDepth > maxDepth)
DepthExceeded(currentDepth, maxDepth) == currentDepth > maxDepth

RECURSIVE simplifySchemaForDatabricks(_, _, _, _, _)
RECURSIVE mergeLoop(_, _, _, _, _, _, _, _, _)

\* mutant: the walk returns the first non-object option even when it has no type
mergeLoopReturnUntyped(options, i, mergedProperties, requiredSets, hasObjectOptions, maxDepth, currentDepth, defs, stack) ==
    IF i > Len(options)
    THEN IF ~hasObjectOptions THEN Fallback
         ELSE LET finalRequired == FinalRequired(requiredSets)
              IN  [type |-> Tag("object"), properties |-> mergedProperties]
                  @@ Opt(finalRequired # {}, "required", finalRequired)
    ELSE LET simplified ==
                 simplifySchemaForDatabricks(options[i], maxDepth, currentDepth,
                                             [table |-> defs], stack)
         IN  IF IsThrown(simplified) THEN simplified
             ELSE IF TypeOf(simplified) = Tag("object") /\ Has(simplified, "properties")
             THEN mergeLoop(options, i + 1,
                            MergeProperties(mergedProperties, simplified.properties),
                            Append(requiredSets,
                                   IF Has(simplified, "required")
                                   THEN simplified.required ELSE {}),
                            TRUE, maxDepth, currentDepth, defs, stack)
             ELSE IF ~hasObjectOptions
             THEN simplified
             ELSE mergeLoop(options, i + 1, mergedProperties, requiredSets,
                            hasObjectOptions, maxDepth, currentDepth, defs, stack)

\* the for-loop of mergeSchemaOptions from option i on, and what follows it
mergeLoop(options, i, mergedProperties, requiredSets, hasObjectOptions, maxDepth, currentDepth, defs, stack) ==
    IF i > Len(options)
    THEN IF ~hasObjectOptions THEN Fallback
         ELSE LET finalRequired == FinalRequired(requiredSets)
              IN  [type |-> Tag("object"), properties |-> mergedProperties]
                  @@ Opt(finalRequired # {}, "required", finalRequired)
    ELSE LET simplified ==
                 simplifySchemaForDatabricks(options[i], maxDepth, currentDepth,
                                             [table |-> defs], stack)
         IN  IF IsThrown(simplified) THEN simplified
             ELSE IF TypeOf(simplified) = Tag("object") /\ Has(simplified, "properties")
             THEN mergeLoop(options, i + 1,
                            MergeProperties(mergedProperties, simplified.properties),
                            Append(requiredSets,
                                   IF Has(simplified, "required")
                                   THEN simplified.required ELSE {}),
                            TRUE, maxDepth, currentDepth, defs, stack)
             ELSE IF TruthyType(simplified) /\ ~hasObjectOptions
             THEN simplified
             ELSE mergeLoop(options, i + 1, mergedProperties, requiredSets,
                            hasObjectOptions, maxDepth, currentDepth, defs, stack)

mergeSchemaOptions(options, maxDepth, currentDepth, defs, stack) ==
    IF stack = 0 THEN RangeError
    ELSE mergeLoop(options, 1, EmptyObject, <<>>, FALSE,
                   maxDepth, currentDepth, defs, stack - 1)

\* `stack` is the room left on the call stack: every call takes one frame, and
\* a call made with no room left throws RangeError, which no frame catches.
simplifySchemaForDatabricks(schema, maxDepth, currentDepth, definitions, stack) ==
    IF stack = 0 THEN RangeError
    ELSE
    LET defs == CollectDefs(schema, definitions)
        schemaToProcess ==
            IF Has(schema, "type") /\ IsArrayType(schema.type)
            THEN [schema EXCEPT !.type = normalizeType(schema.type)]
            ELSE schema
    IN
    IF DepthExceeded(currentDepth, maxDepth) THEN Fallback
    ELSE IF Has(schemaToProcess, "$ref") /\ TruthyRef(schemaToProcess["$ref"])
    THEN LET refPath == RefPath(schemaToProcess["$ref"])
         IN  IF refPath \in DOMAIN defs
             THEN simplifySchemaForDatabricks(defs[refPath], maxDepth, currentDepth,
                                              [table |-> defs], stack - 1)
             ELSE Fallback
    ELSE IF Has(schemaToProcess, "anyOf") \/ Has(schemaToProcess, "oneOf")
    THEN LET options == IF Has(schemaToProcess, "anyOf")
                        THEN schemaToProcess.anyOf ELSE schemaToProcess.oneOf
         IN  mergeSchemaOptions(options, maxDepth, currentDepth, defs, stack - 1)
    ELSE IF Has(schemaToProcess, "allOf")
    THEN mergeSchemaOptions(schemaToProcess.allOf, maxDepth, currentDepth, defs,
                            stack - 1)
    ELSE IF TypeOf(schemaToProcess) = Tag("object") /\ Has(schemaToProcess, "properties")
    THEN LET simplifiedProperties ==
                 [key \in DOMAIN schemaToProcess.properties |->
                     simplifySchemaForDatabricks(schemaToProcess.properties[key],
                                                 maxDepth, currentDepth + 1,
                                                 [table |-> defs], stack - 1)]
         IN  IF \E key \in DOMAIN simplifiedProperties :
                    IsThrown(simplifiedProperties[key])
             THEN RangeError
             ELSE [type |-> Tag("object"), properties |-> simplifiedProperties]
                  @@ Opt(Has(schemaToProcess, "required"), "required",
                         schemaToProcess.required)
                  @@ Opt(TruthyDescription(schemaToProcess), "description",
                         schemaToProcess.description)
                  @@ Opt(Has(schemaToProcess, "additionalProperties"),
                         "additionalProperties", schemaToProcess.additionalProperties)
    ELSE IF TypeOf(schemaToProcess) = Tag("array") /\ Has(schemaToProcess, "items")
    THEN LET items == simplifySchemaForDatabricks(schemaToProcess.items, maxDepth,
                                                  currentDepth + 1, [table |-> defs],
                                                  stack - 1)
         IN  IF IsThrown(items) THEN RangeError
             ELSE [type |-> Tag("array"), items |-> items]
                  @@ Opt(TruthyDescription(schemaToProcess), "description",
                         schemaToProcess.description)
    ELSE SimplifyPrimitive(schemaToProcess)

----------------------------------------------------------------------------
(* JavaScript values met by the send wrapper: null, undefined, strings,       *)
(* arrays [t |-> "arr", a |-> elements] and objects [t |-> "obj", f |-> fields] *)

JsNull == [t |-> "null"]
JsUndefined == [t |-> "undefined"]
JsStr(s) == [t |-> "str", s |-> s]
JsArr(a) == [t |-> "arr", a |-> a]
JsObj(f) == [t |-> "obj", f |-> f]

\* !value is false
Truthy(v) ==
    CASE v.t \in {"null", "undefined"} -> FALSE
      [] v.t = "str" -> v.s # ""
      [] OTHER -> TRUE

\* typeof value === 'object'
TypeofObject(v) == v.t \in {"obj", "arr", "null"}

\* value[key] for a value property access does not throw on
Get(v, key) == IF v.t = "obj" /\ key \in DOMAIN v.f THEN v.f[key] ELSE JsUndefined

----------------------------------------------------------------------------
(* simplifyToolInputSchema *)

simplifyToolInputSchema(inputSchema) ==
    IF ~Truthy(inputSchema)
    THEN [type |-> Tag("object"), properties |-> EmptyObject]
    ELSE simplifySchemaForDatabricks(inputSchema.f, DefaultMaxDepth, 0, Undefined,
                                     StackLimit)

----------------------------------------------------------------------------
(* isToolsListResponse, simplifyToolsListResponse *)

isToolsListResponse(message) ==
    IF ~Truthy(message) \/ ~TypeofObject(message) THEN FALSE
    ELSE IF Truthy(Get(message, "method")) \/ ~Truthy(Get(message, "result")) THEN FALSE
    ELSE Get(Get(message, "result"), "tools").t = "arr"

\* mutant: a tool without inputSchema is left without one
simplifyToolKeepMissing(tool) ==
    IF ~Truthy(tool) \/ ~TypeofObject(tool) THEN tool
    ELSE IF ~Truthy(Get(tool, "inputSchema")) THEN tool
    ELSE LET inputSchema == simplifyToolInputSchema(Get(tool, "inputSchema"))
         IN  IF IsThrown(inputSchema) THEN inputSchema
             ELSE JsObj(("inputSchema" :> JsObj(inputSchema)) @@ tool.f)

\* the callback of result.tools.map
simplifyTool(tool) ==
    IF ~Truthy(tool) \/ ~TypeofObject(tool) THEN tool
    ELSE LET inputSchema == simplifyToolInputSchema(Get(tool, "inputSchema"))
         IN  IF IsThrown(inputSchema) THEN inputSchema
             ELSE JsObj(("inputSchema" :> JsObj(inputSchema)) @@ tool.f)

\* the outcome for a message [ref, value]: the message itself (same identity),
\* a new object with identity `fresh`, or the RangeError a simplification threw
simplifyToolsListResponse(response, fresh) ==
    LET resp == response.value
        result == Get(resp, "result")
        tools == Get(result, "tools")
    IN  IF ~Truthy(resp) \/ ~TypeofObject(resp) THEN response
        ELSE IF Truthy(result) /\ TypeofObject(result) /\ tools.t = "arr"
        THEN LET simplifiedTools == [i \in 1..Len(tools.a) |-> simplifyTool(tools.a[i])]
             IN  IF \E i \in 1..Len(tools.a) : IsThrown(simplifiedTools[i])
                 THEN RangeError
                 ELSE [ref |-> fresh,
                       value |-> JsObj(("result" :>
                                           JsObj(("tools" :> JsArr(simplifiedTools))
                                                 @@ result.f))
                                       @@ resp.f)]
        ELSE response

----------------------------------------------------------------------------
(* The schemas the engine is run on *)

\* longest chain of nested properties / items among the inputs
MaxNest == 6

Ref(prefix, name) == "$ref" :> [prefix |-> prefix, name |-> name]

Str == [type |-> Tag("string")]
Num == [type |-> Tag("number")]
StrDesc == [type |-> Tag("string"), description |-> "text"]
NumDesc == [type |-> Tag("number"), description |-> "count"]
NumStrNull == [type |-> TagArr(<<"number", "string", "null">>)]
StrNull == [type |-> TagArr(<<"string", "null">>)]
NullStr == [type |-> TagArr(<<"null", "string">>), default |-> "lit_null"]
OnlyNull == [type |-> TagArr(<<"null", "null">>)]
NoTags == [type |-> TagArr(<<>>)]
EnumOnly == [enum |-> <<"lit_a", "lit_b">>]
EnumNull == [enum |-> <<"lit_null", "lit_1">>, description |-> ""]
ConstOnly == [const |-> "lit_1"]
EmptySchema == EmptyObject
ObjBare == [type |-> Tag("object")]
ArrBare == [type |-> Tag("array")]
PropsNoType == [properties |-> [a |-> Str]]
Point == [type |-> Tag("object"), properties |-> [x |-> Num, y |-> Num]]

ObjA == [type |-> Tag("object"), properties |-> [a |-> Str], required |-> {"a"}]
ObjAB == [type |-> Tag("object"), properties |-> [a |-> Str, b |-> Num]]
ObjBReqAB == [type |-> Tag("object"), properties |-> [b |-> NumDesc],
              required |-> {"a", "b"}]
ObjANum == [type |-> TagArr(<<"null", "object">>), properties |-> [a |-> NumDesc],
            required |-> {"a"}, description |-> "variant"]
ObjAUntyped == [type |-> Tag("object"), properties |-> [a |-> ConstOnly, b |-> StrDesc],
                required |-> {"a", "b"}]

Primitives ==
    {Str, Num, StrDesc, NumStrNull, StrNull, NullStr, OnlyNull, NoTags, EnumOnly,
     EnumNull, ConstOnly, EmptySchema, ObjBare, ArrBare, PropsNoType, Fallback}

\* reference tables
TablePlain == [N |-> Point, M |-> Str]
TableChain == [N |-> Ref("#/definitions/", "M"), M |-> Point]
TableSelf == [N |-> Ref("#/$defs/", "N")]
TableTwo == [N |-> Ref("#/$defs/", "M"), M |-> Ref("#/definitions/", "N")]
TableUnionCycle == [N |-> [anyOf |-> <<ObjA, Ref("#/$defs/", "N")>>]]
TableUnionShort == [N |-> [oneOf |-> <<Str, Ref("#/$defs/", "N")>>]]
TableAllOfCycle == [N |-> [allOf |-> <<Ref("#/$defs/", "N"), ObjA>>]]
TableProps == [N |-> [type |-> Tag("object"),
                      properties |-> [next |-> Ref("#/$defs/", "N"), v |-> StrNull],
                      required |-> {"v"}]]
TableItems == [N |-> [type |-> Tag("array"), items |-> Ref("#/definitions/", "N")]]
TableOnlyM == [M |-> NumDesc]

Tables ==
    {TablePlain, TableChain, TableSelf, TableTwo, TableUnionCycle, TableUnionShort,
     TableAllOfCycle, TableProps, TableItems}

\* the $defs / definitions a root document carries
TableConfigs ==
    {EmptyObject}
    \cup {"$defs" :> t : t \in Tables}
    \cup {[definitions |-> t] : t \in Tables}
    \cup {("$defs" :> EmptyObject) @@ [definitions |-> TablePlain],
          ("$defs" :> TableOnlyM) @@ [definitions |-> TablePlain],
          ("$defs" :> TablePlain) @@ [definitions |-> TableChain],
          ("$defs" :> TableSelf) @@ [definitions |-> TablePlain]}

RefBodies ==
    {Ref("#/$defs/", "N"), Ref("#/definitions/", "N"), Ref("#/$defs/", "M"),
     Ref("#/$defs/", "Z"), Ref("other.json#/", "N"), Ref("", "N"), Ref("", ""),
     [type |-> Tag("object"), properties |-> [p |-> Ref("#/$defs/", "N"), q |-> Str],
      required |-> {"p"}],
     [type |-> Tag("array"), items |-> Ref("#/definitions/", "N")],
     [anyOf |-> <<Ref("#/$defs/", "N"), ObjAB>>],
     [type |-> TagArr(<<"object", "null">>),
      properties |-> [p |-> Ref("#/definitions/", "N")]] @@ Ref("", "")}

RefDocuments == {body @@ config : body \in RefBodies, config \in TableConfigs}

\* option lists of unions
OptionPool == {ObjA, ObjAB, ObjBReqAB, ObjANum, ObjAUntyped, Str, NumStrNull, ConstOnly,
               EmptySchema}
OptionLists ==
    {<<>>} \cup {<<o>> : o \in OptionPool}
    \cup {<<o, p>> : o \in OptionPool, p \in OptionPool}
    \cup {<<o, p, q>> : o \in {ObjA, ObjBReqAB, Str, ConstOnly},
                        p \in {ObjAB, ObjANum, ConstOnly},
                        q \in {ObjA, ObjAUntyped, NumStrNull}}

UnionDocuments ==
    {[anyOf |-> l] : l \in OptionLists}
    \cup {[oneOf |-> l] : l \in OptionLists}
    \cup {[allOf |-> l] : l \in OptionLists}
    \cup {[anyOf |-> <<ObjA>>, oneOf |-> <<ObjAB>>, type |-> Tag("string")],
          [oneOf |-> <<ObjAB>>, allOf |-> <<Str>>],
          [allOf |-> <<ObjA, ObjAB>>, type |-> Tag("object"),
           properties |-> [z |-> Str]]}

\* additionalProperties carried by an object schema
AdditionalValues ==
    {[bool |-> TRUE], [bool |-> FALSE], [schema |-> Str], [schema |-> StrNull],
     [schema |-> Ref("#/$defs/", "N")], [schema |-> [anyOf |-> <<Str, Num>>]],
     [schema |-> Point @@ ("$defs" :> TablePlain)]}

AdditionalDocuments ==
    {[type |-> Tag("object"), properties |-> props, additionalProperties |-> ap]
        @@ config :
        props \in {EmptyObject, [a |-> Str], [a |-> ObjBare, b |-> Fallback]},
        ap \in AdditionalValues,
        config \in {EmptyObject, "$defs" :> TablePlain}}
    \cup {[type |-> Tag("object"), additionalProperties |-> ap] : ap \in AdditionalValues}

\* chains of nested objects / arrays
RECURSIVE Chain(_, _, _)
Chain(levels, kind, leaf) ==
    IF levels = 0 THEN leaf
    ELSE IF kind = "object"
    THEN [type |-> Tag("object"),
          properties |-> [child |-> Chain(levels - 1, kind, leaf), tag |-> StrNull],
          required |-> {"child"}, description |-> "level"]
    ELSE IF kind = "array"
    THEN [type |-> Tag("array"), items |-> Chain(levels - 1, kind, leaf)]
    ELSE [type |-> Tag("object"),
          properties |-> [child |-> [type |-> Tag("array"),
                                     items |-> Chain(levels - 1, kind, leaf)]]]

ChainLeaves ==
    {Str, NumStrNull, EnumOnly, EmptySchema, ObjA, Point, Fallback,
     [anyOf |-> <<ObjA, ObjAB>>], [oneOf |-> <<Str, Num>>], [allOf |-> <<>>],
     Ref("#/$defs/", "N"), Ref("#/$defs/", "Z"),
     [type |-> Tag("object"), properties |-> EmptyObject,
      additionalProperties |-> [schema |-> StrNull]]}

ChainDocuments ==
    {Chain(levels, kind, leaf) @@ config :
        levels \in 0..MaxNest, kind \in {"object", "array", "mixed"},
        leaf \in ChainLeaves, config \in {"$defs" :> TableProps, [definitions |-> TablePlain]}}

InputSchemas ==
    Primitives \cup RefDocuments \cup UnionDocuments \cup AdditionalDocuments
    \cup ChainDocuments

MaxDepths == {1, DefaultMaxDepth}

----------------------------------------------------------------------------
(* The engine run on one document, then on its own output *)

NotRun == [notRun |-> TRUE]

\* a caller about to simplify one document; no transport exists
InitEngine ==
    /\ inSchema \in InputSchemas
    /\ inMaxDepth \in MaxDepths
    /\ pc = "start"
    /\ out = NotRun
    /\ out2 = NotRun
    /\ wire = <<>>
    /\ calls = <<>>
    /\ wrapped = {}
    /\ nextRef = 0

\* simplifySchemaForDatabricks(schema, maxDepth): currentDepth 0, no definitions
SimplifyOnce ==
    /\ pc = "start"
    /\ out' = simplifySchemaForDatabricks(inSchema, inMaxDepth, 0, Undefined, StackLimit)
    /\ pc' = "once"
    /\ UNCHANGED <<inSchema, inMaxDepth, out2, wire, calls, wrapped, nextRef>>

\* the output simplified again; a call that threw has no output
SimplifyAgain ==
    /\ pc = "once"
    /\ ~IsThrown(out)
    /\ out2' = simplifySchemaForDatabricks(out, inMaxDepth, 0, Undefined, StackLimit)
    /\ pc' = "twice"
    /\ UNCHANGED <<inSchema, inMaxDepth, out, wire, calls, wrapped, nextRef>>

NextEngine == SimplifyOnce \/ SimplifyAgain

EngineSpec == InitEngine /\ [][NextEngine]_vars

----------------------------------------------------------------------------
(* Properties of the engine, stated on the caller's state *)

Returned == pc \in {"once", "twice"} /\ ~IsThrown(out)

ForbiddenKeys == {"$ref", "anyOf", "oneOf", "allOf", "$defs", "definitions"}

RECURSIVE NoForbidden(_)
NoForbidden(node) ==
    /\ DOMAIN node \cap ForbiddenKeys = {}
    /\ Has(node, "type") => ~IsArrayType(node.type)
    /\ Has(node, "properties") =>
           \A key \in DOMAIN node.properties : NoForbidden(node.properties[key])
    /\ Has(node, "items") => NoForbidden(node.items)
    /\ (Has(node, "additionalProperties") /\ Has(node.additionalProperties, "schema")) =>
           NoForbidden(node.additionalProperties.schema)

\* C1: the output of simplifySchemaForDatabricks holds, at every nesting level
\* (under properties, items and additionalProperties too), no `type` that is an
\* array and none of $ref, anyOf, oneOf, allOf, $defs, definitions.
C1_NoForbiddenConstructs == Returned => NoForbidden(out)

\* C2: simplifySchemaForDatabricks returns a node for every input document,
\* self-referential ones included.
C2_AlwaysReturns == pc \in {"once", "twice"} => ~IsThrown(out)

RECURSIVE OpaqueDropped(_, _, _)
\* node, with every opaque fallback that lies at most maxDepth descents below
\* the root replaced by {type: object}
OpaqueDropped(node, depth, maxDepth) ==
    IF depth > maxDepth THEN node
    ELSE IF node = Fallback THEN [type |-> Tag("object")]
    ELSE [key \in DOMAIN node |->
             IF key = "properties"
             THEN [p \in DOMAIN node.properties |->
                      OpaqueDropped(node.properties[p], depth + 1, maxDepth)]
             ELSE IF key = "items"
             THEN OpaqueDropped(node.items, depth + 1, maxDepth)
             ELSE node[key]]

\* C3 (as claimed): with the default maxDepth, from depth 0,
\* simplify(simplify(S)) = simplify(S) for every input S.
C3_Idempotent == (pc = "twice" /\ inMaxDepth = DefaultMaxDepth) => out2 = out

\* C3 (amended): simplify(simplify(S)) is simplify(S) with every opaque fallback
\* {type: object, additionalProperties: true} at depth <= maxDepth replaced by
\* {type: object}; so the two are equal exactly when simplify(S) holds no such
\* fallback.
C3_IdempotentUpToOpaque ==
    pc = "twice" =>
        /\ out2 = OpaqueDropped(out, 0, inMaxDepth)
        /\ (out2 = out) <=> (OpaqueDropped(out, 0, inMaxDepth) = out)

C3_Witness ==
    /\ pc = "twice"
    /\ inMaxDepth = DefaultMaxDepth
    /\ out2 = out
    /\ out # inSchema
    /\ Has(inSchema, "anyOf")
    /\ Has(out, "properties")
    /\ \E key \in DOMAIN out.properties : Has(out.properties[key], "description")

----------------------------------------------------------------------------
(* The option merger seen from a root document that is a union *)

IsUnionRoot ==
    /\ ~(Has(inSchema, "$ref") /\ TruthyRef(inSchema["$ref"]))
    /\ Has(inSchema, "anyOf") \/ Has(inSchema, "oneOf") \/ Has(inSchema, "allOf")

RootOptions ==
    IF Has(inSchema, "anyOf") THEN inSchema.anyOf
    ELSE IF Has(inSchema, "oneOf") THEN inSchema.oneOf
    ELSE inSchema.allOf

\* the i-th option as the merger sees it: simplified at the root's depth
Variant(i) ==
    simplifySchemaForDatabricks(RootOptions[i], inMaxDepth, 0,
                                [table |-> CollectDefs(inSchema, Undefined)], StackLimit)

IsObjectVariant(v) == TypeOf(v) = Tag("object") /\ Has(v, "properties")
ObjectVariants == {i \in 1..Len(RootOptions) : IsObjectVariant(Variant(i))}
RequiredOf(v) == IF Has(v, "required") THEN v.required ELSE {}

\* a typed non-object option ahead of every object option ends the walk early
ShortCircuited ==
    \E i \in 1..Len(RootOptions) :
        /\ ~IsObjectVariant(Variant(i))
        /\ TruthyType(Variant(i))
        /\ \A j \in 1..(i - 1) : j \notin ObjectVariants

\* the merger ran to the end of the list and merged at least one object variant
MergedObjects ==
    /\ Returned
    /\ IsUnionRoot
    /\ ObjectVariants # {}
    /\ ~ShortCircuited

RequiredIsIntersection ==
    /\ RequiredOf(out) =
           {p \in UNION {RequiredOf(Variant(i)) : i \in ObjectVariants} :
               \A i \in ObjectVariants : p \in RequiredOf(Variant(i))}
    /\ Has(out, "required") => out.required # {}

AllPropertiesKept ==
    \A i \in ObjectVariants :
        DOMAIN Variant(i).properties \subseteq DOMAIN out.properties

PresentInOnlySome(p) ==
    \E i, j \in ObjectVariants :
        p \in DOMAIN Variant(i).properties /\ p \notin DOMAIN Variant(j).properties

\* C4 (as claimed): merged required is the intersection of the variants'
\* required sets, every property of every object variant is in the merged
\* properties, and a property present in only some variants is never required.
C4_RequiredIntersectionLaw ==
    MergedObjects =>
        /\ RequiredIsIntersection
        /\ AllPropertiesKept
        /\ \A p \in DOMAIN out.properties : PresentInOnlySome(p) => p \notin RequiredOf(out)

\* C4 (amended): merged required is the intersection of the variants' required
\* sets (omitted when empty), every property of every object variant is in the
\* merged properties, and a property that some object variant does not list in
\* its required is never in the merged required.
C4_RequiredIntersectionAmended ==
    MergedObjects =>
        /\ RequiredIsIntersection
        /\ AllPropertiesKept
        /\ \A p \in DOMAIN out.properties :
               (\E i \in ObjectVariants : p \notin RequiredOf(Variant(i)))
                   => p \notin RequiredOf(out)

C4_Witness ==
    /\ MergedObjects
    /\ Cardinality(ObjectVariants) >= 2
    /\ Has(out, "required")
    /\ \E p \in DOMAIN out.properties : PresentInOnlySome(p) /\ p \notin out.required
    /\ \E i \in ObjectVariants : RequiredOf(Variant(i)) # out.required

----------------------------------------------------------------------------
(* Depth *)

RECURSIVE DepthBounded(_, _, _)
\* every node more than maxDepth descents (properties / items) below the root
\* is the opaque fallback
DepthBounded(node, depth, maxDepth) ==
    IF depth > maxDepth THEN node = Fallback
    ELSE /\ Has(node, "properties") =>
                \A key \in DOMAIN node.properties :
                    DepthBounded(node.properties[key], depth + 1, maxDepth)
         /\ Has(node, "items") => DepthBounded(node.items, depth + 1, maxDepth)

\* C7: in the output, every node more than maxDepth descents through
\* properties / items below the root is exactly the opaque fallback, so nothing
\* lies deeper than maxDepth + 1.
C7_DepthBound == Returned => DepthBounded(out, 0, inMaxDepth)

\* six nested objects, maxDepth 4: the fallback sits at the 5th level
C7_Witness ==
    /\ pc = "once"
    /\ inMaxDepth = DefaultMaxDepth
    /\ inSchema = Chain(6, "object", Str) @@ ("$defs" :> TableProps)
    /\ out.properties.child.properties.child.properties.child.properties.child
          .properties.child = Fallback
    /\ out.properties.child.properties.child.properties.child.properties.child
          # Fallback

----------------------------------------------------------------------------
(* References *)

\* the root's $defs and definitions read as one reference table
RootTables ==
    LET d == IF Has(inSchema, "$defs") THEN inSchema["$defs"] ELSE EmptyObject
        f == IF Has(inSchema, "definitions") THEN inSchema.definitions ELSE EmptyObject
    IN  {d @@ f, f @@ d}

IsLocalRef(node) ==
    Has(node, "$ref") /\ node["$ref"].prefix \in {"#/$defs/", "#/definitions/"}

\* what the claim lets a local reference at `depth` simplify to
Resolutions(node, depth) ==
    {IF node["$ref"].name \in DOMAIN table
     THEN simplifySchemaForDatabricks(table[node["$ref"].name], inMaxDepth, depth,
                                      [table |-> table], StackLimit)
     ELSE Fallback : table \in RootTables}

\* C8: a node {$ref: "#/$defs/N"} or {$ref: "#/definitions/N"} simplifies to the
\* simplification, at the same depth, of the node named N in the root's
\* $defs / definitions, and to the opaque fallback when N is in neither.
C8_ReferenceResolution ==
    pc \in {"once", "twice"} =>
        /\ IsLocalRef(inSchema) => out \in Resolutions(inSchema, 0)
        /\ (Returned /\ ~Has(inSchema, "$ref") /\ ~IsUnionRoot
              /\ Has(inSchema, "properties") /\ Has(out, "properties")) =>
               \A key \in DOMAIN inSchema.properties :
                   IsLocalRef(inSchema.properties[key]) =>
                       out.properties[key] \in Resolutions(inSchema.properties[key], 1)

----------------------------------------------------------------------------
(* Degradation *)

Placeholders == {Fallback, [type |-> Tag("object")]}

UnresolvableRef ==
    /\ Has(inSchema, "$ref") /\ TruthyRef(inSchema["$ref"])
    /\ \A table \in RootTables : RefPath(inSchema["$ref"]) \notin DOMAIN table

AllPrimitiveUnion ==
    /\ IsUnionRoot
    /\ \A i \in 1..Len(RootOptions) : ~IsThrown(Variant(i)) /\ ~IsObjectVariant(Variant(i))

\* C10: an unresolvable $ref, a node beyond the depth limit and a union whose
\* options are all primitive each simplify to {type: object,
\* additionalProperties: true} or {type: object}; no input makes simplify raise.
C10_GracefulDegradation ==
    pc \in {"once", "twice"} =>
        /\ ~IsThrown(out)
        /\ UnresolvableRef => out \in Placeholders
        /\ AllPrimitiveUnion => out \in Placeholders
        /\ simplifySchemaForDatabricks(inSchema, inMaxDepth, inMaxDepth + 1, Undefined,
                                       StackLimit) \in Placeholders

----------------------------------------------------------------------------
(* Object-typed nodes of the output *)

IsObjectTyped(node) == TypeOf(node) = Tag("object")

\* the fields the primitive tail may copy
OpaqueKeys == {"type", "enum", "const", "description", "default"}

RECURSIVE OnlyOverflowOpaque(_, _, _)
\* every object-typed node reached through properties / items carries
\* `properties`, unless it is the fallback lying below the depth limit
OnlyOverflowOpaque(node, depth, maxDepth) ==
    /\ (IsObjectTyped(node) /\ ~Has(node, "properties")) =>
           (node = Fallback /\ depth > maxDepth)
    /\ Has(node, "properties") =>
           \A key \in DOMAIN node.properties :
               OnlyOverflowOpaque(node.properties[key], depth + 1, maxDepth)
    /\ Has(node, "items") => OnlyOverflowOpaque(node.items, depth + 1, maxDepth)

RECURSIVE OpaqueOnlyAsProduced(_)
\* an object-typed node without `properties` is the fallback or holds nothing
\* but fields of the primitive tail
OpaqueOnlyAsProduced(node) ==
    /\ (IsObjectTyped(node) /\ ~Has(node, "properties")) =>
           (node = Fallback \/ DOMAIN node \subseteq OpaqueKeys)
    /\ Has(node, "properties") =>
           \A key \in DOMAIN node.properties : OpaqueOnlyAsProduced(node.properties[key])
    /\ Has(node, "items") => OpaqueOnlyAsProduced(node.items)

\* the root is handled by the object branch: no $ref, no union, type object
\* (after normalizeType) and a `properties` mapping
RootIsObjectWithProperties ==
    /\ ~(Has(inSchema, "$ref") /\ TruthyRef(inSchema["$ref"]))
    /\ DOMAIN inSchema \cap {"anyOf", "oneOf", "allOf"} = {}
    /\ Has(inSchema, "type")
    /\ normalizeType(inSchema.type) = Tag("object")
    /\ Has(inSchema, "properties")

----------------------------------------------------------------------------
(* The walk over the options of a union *)

\* the options whose simplification is object-typed with properties
ObjectOptionsOnly ==
    LET IsObjectOption(option) ==
            IsObjectVariant(simplifySchemaForDatabricks(
                option, inMaxDepth, 0, [table |-> CollectDefs(inSchema, Undefined)],
                StackLimit))
    IN  SelectSeq(RootOptions, IsObjectOption)

\* C12 (as claimed): when the first option of the walk is not object-typed with
\* properties, the merger returns that option's simplified schema, whether or
\* not it has a `type`; when the walk starts with an object-typed option, every
\* non-object option is ignored and the result is the merge of the object-typed
\* ones.
C12_PrimitiveShortCircuit ==
    (Returned /\ IsUnionRoot /\ Len(RootOptions) > 0) =>
        IF ~IsObjectVariant(Variant(1)) THEN out = Variant(1)
        ELSE out = mergeSchemaOptions(ObjectOptionsOnly, inMaxDepth, 0,
                                      CollectDefs(inSchema, Undefined), StackLimit)

\* positions of the options the walk does not skip: object-typed with
\* properties, or carrying a type
Deciding ==
    {i \in 1..Len(RootOptions) : IsObjectVariant(Variant(i)) \/ TruthyType(Variant(i))}

FirstDeciding == CHOOSE i \in Deciding : \A j \in Deciding : i <= j

\* C12 (amended): an option whose simplified schema has no `type` is skipped;
\* when the first option not skipped is not object-typed with properties, the
\* merger returns its simplified schema; when it is object-typed, every
\* non-object option is ignored and the result is the merge of the object-typed
\* ones; when every option is skipped the result is the opaque fallback.
C12_PrimitiveShortCircuitAmended ==
    (Returned /\ IsUnionRoot) =>
        IF Deciding = {} THEN out = Fallback
        ELSE IF ~IsObjectVariant(Variant(FirstDeciding)) THEN out = Variant(FirstDeciding)
        ELSE out = mergeSchemaOptions(ObjectOptionsOnly, inMaxDepth, 0,
                                      CollectDefs(inSchema, Undefined), StackLimit)

\* {const: c} ahead of a typed primitive: the walk skips the first option and
\* returns the second
C12_Witness ==
    /\ Returned
    /\ IsUnionRoot
    /\ Len(RootOptions) >= 2
    /\ Deciding # {}
    /\ FirstDeciding > 1
    /\ ~IsObjectVariant(Variant(FirstDeciding))
    /\ out = Variant(FirstDeciding)
    /\ out # Variant(1)

----------------------------------------------------------------------------
(* The wrapped transports *)

Transports == {"t1", "t2"}

\* send calls made in one run, over all transports
MaxSends == 2

ToolStrNull == JsObj([name |-> JsStr("x"), inputSchema |-> JsObj(StrNull)])
ToolNumStrNull == JsObj([name |-> JsStr("y"), inputSchema |-> JsObj(NumStrNull)])
ToolStr == JsObj([inputSchema |-> JsObj(Str)])
ToolUnion ==
    JsObj([name |-> JsStr("query"), description |-> JsStr("Query a datasource"),
           inputSchema |-> JsObj([type |-> Tag("object"),
                                  properties |-> [filter |-> [anyOf |-> <<ObjA, ObjAB>>],
                                                  point |-> Ref("#/$defs/", "N")],
                                  required |-> {"filter"}]
                                 @@ ("$defs" :> TablePlain))])
ToolNoSchema == JsObj([name |-> JsStr("ping")])
ToolNullSchema == JsObj([name |-> JsStr("z"), inputSchema |-> JsNull])
ToolCyclic ==
    JsObj([name |-> JsStr("tree"),
           inputSchema |-> JsObj(Ref("#/$defs/", "N") @@ ("$defs" :> TableSelf))])

ToolTagArrays ==
    <<JsObj([inputSchema |-> JsObj(NullStr)]), JsObj([inputSchema |-> JsObj(OnlyNull)]),
      JsObj([inputSchema |-> JsObj(NoTags)])>>

ToolLists ==
    {<<>>, <<ToolStrNull>>, <<ToolNumStrNull, ToolNoSchema>>, <<ToolUnion, ToolStr>>,
     ToolTagArrays,
     <<ToolNullSchema, JsStr("not a tool"), ToolStrNull>>, <<ToolStr, ToolCyclic>>}

Response(result) == JsObj([jsonrpc |-> JsStr("2.0"), id |-> JsStr("1"), result |-> result])

Messages ==
    {JsNull, JsStr("ping"),
     JsObj([jsonrpc |-> JsStr("2.0"), method |-> JsStr("notifications/message")]),
     JsObj([jsonrpc |-> JsStr("2.0"), id |-> JsStr("1"),
            error |-> JsObj([message |-> JsStr("failed")])]),
     Response(JsNull), Response(JsStr("ok")), Response(JsObj(EmptyObject)),
     Response(JsObj([tools |-> JsStr("none")])),
     Response(JsObj([content |-> JsArr(<<ToolStrNull>>)])),
     Response(JsArr(<<ToolStrNull>>)),
     JsObj([method |-> JsStr("tools/list"),
            result |-> JsObj([tools |-> JsArr(<<ToolStrNull>>)])]),
     JsObj([method |-> JsStr(""), result |-> JsObj([tools |-> JsArr(<<ToolStrNull>>)])]),
     JsObj([result |-> JsObj([tools |-> JsArr(<<ToolNumStrNull>>)])])}
    \cup {Response(JsObj([tools |-> JsArr(l), nextCursor |-> JsStr("c2")])) :
             l \in ToolLists}

\* the server before any transport is created; the engine is not run on its own
Init ==
    /\ inSchema = EmptyObject
    /\ inMaxDepth = DefaultMaxDepth
    /\ pc = "idle"
    /\ out = NotRun
    /\ out2 = NotRun
    /\ wire = [t \in Transports |-> <<>>]
    /\ calls = [t \in Transports |-> <<>>]
    /\ wrapped = {}
    /\ nextRef = 1

SendsMade == Len(calls["t1"]) + Len(calls["t2"])

\* createMcpServer without session management: a new transport, wrapped at once
CreateTransport(t) ==
    /\ t \notin wrapped
    /\ wrapped' = wrapped \cup {t}
    /\ UNCHANGED <<inSchema, inMaxDepth, pc, out, out2, wire, calls, nextRef>>

\* transport.send(message) on a wrapped transport: classify, rewrite, hand the
\* outcome to originalSend; a RangeError thrown by the rewrite rejects the call
\* before originalSend is reached
Send(t, value) ==
    /\ t \in wrapped
    /\ SendsMade < MaxSends
    /\ LET message == [ref |-> nextRef, value |-> value]
           delivered == IF isToolsListResponse(value)
                        THEN simplifyToolsListResponse(message, nextRef + 1)
                        ELSE message
       IN  /\ calls' = [calls EXCEPT ![t] = Append(@, [message |-> message,
                                                        outcome |-> delivered])]
           /\ wire' = IF IsThrown(delivered) THEN wire
                      ELSE [wire EXCEPT ![t] = Append(@, delivered)]
    /\ nextRef' = nextRef + 2
    /\ UNCHANGED <<inSchema, inMaxDepth, pc, out, out2, wrapped>>

Next ==
    \/ \E t \in Transports : CreateTransport(t)
    \/ \E t \in Transports, value \in Messages : Send(t, value)

Spec == Init /\ [][Next]_vars

----------------------------------------------------------------------------
(* Properties of the send wrapper *)

\* the calls on t that reached originalSend, in order: wire[t][k] is what the
\* k-th of them handed over
Forwarded(t) == SelectSeq(calls[t], LAMBDA c : ~IsThrown(c.outcome))

\* (message submitted, message originalSend received) for every delivery
Deliveries ==
    UNION {{[message |-> Forwarded(t)[k].message, delivered |-> wire[t][k]] :
               k \in 1..Len(wire[t])} : t \in Transports}

IsStructured(v) == v.t \in {"obj", "arr"}

\* the classification of a tool-listing response: a structured object with no
\* `method` field, whose `result` is a structured object with a sequence `tools`
IsToolListing(v) ==
    /\ v.t = "obj"
    /\ ~Has(v.f, "method")
    /\ Has(v.f, "result") /\ IsStructured(v.f.result)
    /\ Get(v.f.result, "tools").t = "arr"

\* C5: a message that is not a tool-listing response reaches originalSend as
\* the very same object, and only tool-listing responses are rewritten.
C5_Passthrough ==
    \A d \in Deliveries :
        /\ ~IsToolListing(d.message.value) => d.delivered = d.message
        /\ d.delivered # d.message => IsToolListing(d.message.value)

\* what a tool entry is to become
ExpectedTool(tool) ==
    IF tool.t # "obj" THEN tool
    ELSE JsObj([key \in DOMAIN tool.f \cup {"inputSchema"} |->
                   IF key # "inputSchema" THEN tool.f[key]
                   ELSE IF Has(tool.f, "inputSchema") /\ tool.f.inputSchema.t = "obj"
                   THEN JsObj(simplifySchemaForDatabricks(tool.f.inputSchema.f,
                                                          DefaultMaxDepth, 0, Undefined,
                                                          StackLimit))
                   ELSE JsObj([type |-> Tag("object"), properties |-> EmptyObject])])

RewrittenFrom(original, delivered) ==
    /\ delivered.t = "obj"
    /\ DOMAIN delivered.f = DOMAIN original.f
    /\ \A key \in DOMAIN original.f \ {"result"} : delivered.f[key] = original.f[key]
    /\ delivered.f.result.t = "obj"
    /\ DOMAIN delivered.f.result.f = DOMAIN original.f.result.f
    /\ \A key \in DOMAIN original.f.result.f \ {"tools"} :
           delivered.f.result.f[key] = original.f.result.f[key]
    /\ delivered.f.result.f.tools.t = "arr"
    /\ Len(delivered.f.result.f.tools.a) = Len(original.f.result.f.tools.a)
    /\ \A i \in 1..Len(original.f.result.f.tools.a) :
           delivered.f.result.f.tools.a[i] = ExpectedTool(original.f.result.f.tools.a[i])

\* C6: the message delivered for a tool-listing response has the fields of the
\* original, except that each entry of result.tools, in the same order, has its
\* inputSchema replaced by simplify(inputSchema, 4, 0), or by
\* {type: object, properties: {}} when it had none.
C6_Rewrite ==
    \A d \in Deliveries :
        IsToolListing(d.message.value) =>
            RewrittenFrom(d.message.value, d.delivered.value)

C6_Witness ==
    \E d \in Deliveries :
        /\ IsToolListing(d.message.value)
        /\ d.message.value.f.result.f.tools.a = <<ToolNumStrNull, ToolNoSchema>>
        /\ d.delivered.value.f.result.f.tools.a[2].f.inputSchema =
               JsObj([type |-> Tag("object"), properties |-> EmptyObject])
        /\ d.delivered.value.f.result.f.nextCursor = JsStr("c2")
        /\ d.delivered.value # d.message.value

\* the first tag of q that is not `null`, `null` when there is none
FirstNonNull(q) ==
    IF \E i \in 1..Len(q) : q[i] # "null"
    THEN q[CHOOSE i \in 1..Len(q) : q[i] # "null" /\ \A j \in 1..(i - 1) : q[j] = "null"]
    ELSE "null"

\* a schema that is nothing but a `type`
OnlyType(schema) == schema.t = "obj" /\ DOMAIN schema.f \subseteq {"type", "default"}
                    /\ Has(schema.f, "type")

\* C9: a single tag is kept; an array of tags becomes its first tag that is not
\* `null`, or `null` when every tag is; so a tool's inputSchema
\* {type: ["number","string","null"]} is delivered as {type: "number"} and
\* {type: ["string","null"]} as {type: "string"}.
C9_TypeNormalization ==
    \A d \in Deliveries :
        IsToolListing(d.message.value) =>
            \A i \in 1..Len(d.message.value.f.result.f.tools.a) :
                LET tool == d.message.value.f.result.f.tools.a[i]
                    sent == d.delivered.value.f.result.f.tools.a[i]
                IN  (tool.t = "obj" /\ OnlyType(Get(tool, "inputSchema"))) =>
                        LET type == tool.f.inputSchema.f.type
                        IN  /\ normalizeType(type) =
                                   (IF IsArrayType(type) THEN Tag(FirstNonNull(type.array))
                                    ELSE type)
                            /\ sent.f.inputSchema.f.type =
                                   (IF IsArrayType(type) THEN Tag(FirstNonNull(type.array))
                                    ELSE type)

C9_Witness ==
    /\ \E d \in Deliveries :
           /\ IsToolListing(d.message.value)
           /\ d.message.value.f.result.f.tools.a = <<ToolNumStrNull, ToolNoSchema>>
           /\ d.delivered.value.f.result.f.tools.a[1].f.inputSchema = JsObj(Num)
    /\ \E d \in Deliveries :
           /\ IsToolListing(d.message.value)
           /\ d.message.value.f.result.f.tools.a = <<ToolStrNull>>
           /\ d.delivered.value.f.result.f.tools.a[1].f.inputSchema = JsObj(Str)

----------------------------------------------------------------------------
(* One delivery per call *)

\* what the wrapper hands to originalSend for a submitted message, from the
\* message alone
DeliveredFor(message) ==
    IF isToolsListResponse(message.value)
    THEN simplifyToolsListResponse(message, message.ref + 1)
    ELSE message

\* C13: on every wrapped transport, originalSend has been invoked exactly once
\* per send call, in the order of the calls, with the message (or its rewrite)
\* given to that call; what it received is a function of that message alone,
\* the same on every transport and after any earlier calls; a transport that
\* was never wrapped has seen nothing.
C13_OneDeliveryPerCall ==
    /\ \A t \in Transports :
           /\ Len(wire[t]) = Len(calls[t])
           /\ \A k \in 1..Len(calls[t]) : wire[t][k] = DeliveredFor(calls[t][k].message)
           /\ t \notin wrapped => calls[t] = <<>>
    /\ \A t \in Transports, u \in Transports :
           \A k \in 1..Len(wire[t]), l \in 1..Len(wire[u]) :
               calls[t][k].message.value = calls[u][l].message.value
                   => wire[t][k].value = wire[u][l].value

----------------------------------------------------------------------------
(* Instances accepted by a schema: type and required-ness only *)

InstanceKinds == {"string", "number"}
InstanceFields == {"a", "b"}

\* values an instance is checked with: primitives, and objects over a, b
Instances ==
    {[kind |-> k] : k \in InstanceKinds}
    \cup {[kind |-> "object", fields |-> f] :
             f \in UNION {[S -> {[kind |-> k] : k \in InstanceKinds}] :
                            S \in SUBSET InstanceFields}}

\* the `type` of the node admits the kind of the instance
AcceptsType(node, instance) ==
    IF ~Has(node, "type") THEN TRUE
    ELSE IF IsArrayType(node.type)
    THEN \E i \in 1..Len(node.type.array) : node.type.array[i] = instance.kind
    ELSE node.type = Tag(instance.kind)

RECURSIVE Accepts(_, _)
\* type, required and the declared properties admit the instance
Accepts(node, instance) ==
    /\ AcceptsType(node, instance)
    /\ instance.kind = "object" =>
           /\ RequiredOf(node) \subseteq DOMAIN instance.fields
           /\ Has(node, "properties") =>
                  \A p \in DOMAIN instance.fields \cap DOMAIN node.properties :
                      Accepts(node.properties[p], instance.fields[p])

\* an option made of type, properties and required alone, whose validity does
\* not rest on references or nested unions
PlainOption(option) ==
    /\ DOMAIN option \cap ForbiddenKeys = {}
    /\ Has(option, "properties") =>
           \A p \in DOMAIN option.properties :
               DOMAIN option.properties[p] \cap (ForbiddenKeys \cup {"properties", "items"}) = {}

\* a union of plain options, at least one of them an object variant
PlainUnionRoot ==
    /\ Returned
    /\ IsUnionRoot
    /\ ObjectVariants # {}
    /\ \A i \in 1..Len(RootOptions) : PlainOption(RootOptions[i])

\* C14 (as claimed): for an option list with an object variant, every instance
\* valid against at least one variant of the list is accepted, by type and
\* required-ness, by the merged result.
C14_PermissiveFlattening ==
    PlainUnionRoot =>
        \A instance \in Instances :
            (\E i \in 1..Len(RootOptions) : Accepts(RootOptions[i], instance))
                => Accepts(out, instance)

\* the object variants declaring p all give it the same `type` (or all none)
TypesAgree(p) ==
    \A i \in ObjectVariants, j \in ObjectVariants :
        (p \in DOMAIN Variant(i).properties /\ p \in DOMAIN Variant(j).properties)
            => TypeOf(Variant(i).properties[p]) = TypeOf(Variant(j).properties[p])

\* C14 (amended): when the merger merges object variants, an object instance
\* valid against the simplified form of one of them has every property the
\* merged `required` names, and each of its properties that the variant
\* declares, and that every declaring variant gives the same `type`, is admitted
\* by the `type` of the merged property.
C14_PermissiveFlatteningAmended ==
    MergedObjects =>
        \A i \in ObjectVariants :
            \A instance \in Instances :
                (instance.kind = "object" /\ Accepts(Variant(i), instance)) =>
                    /\ RequiredOf(out) \subseteq DOMAIN instance.fields
                    /\ \A p \in DOMAIN instance.fields \cap DOMAIN Variant(i).properties :
                           TypesAgree(p) =>
                               AcceptsType(out.properties[p], instance.fields[p])

\* two object variants with different property sets agreeing on a typed
\* property, and an instance of the second variant accepted by the merge
C14_Witness ==
    /\ MergedObjects
    /\ Cardinality(ObjectVariants) >= 2
    /\ \E i \in ObjectVariants, j \in ObjectVariants :
           DOMAIN Variant(i).properties # DOMAIN Variant(j).properties
    /\ \E p \in DOMAIN out.properties :
           /\ TypesAgree(p)
           /\ Has(out.properties[p], "type")
           /\ \E i \in ObjectVariants, instance \in Instances :
                  /\ i > 1
                  /\ instance.kind = "object"
                  /\ p \in DOMAIN instance.fields
                  /\ p \in DOMAIN Variant(i).properties
                  /\ Accepts(Variant(i), instance)
                  /\ Accepts(out, instance)

====
